---- MODULE Spec2Model ----
(***************************************************************************)
(* State-machine model of api_server.py (LEGO Mosaic 3D API): the two      *)
(* process-wide caches, the preset loader, the tile resolver/cache, the    *)
(* startup hook and the /health and /mosaic3d handlers.                    *)
(*                                                                         *)
(* Python values are records tagged by a py field; None is [py |-> "None"].*)
(* The three functions imported from mosaic_core are opaque: a call either *)
(* raises or returns the term that records the call's arguments.           *)
(***************************************************************************)
EXTENDS Integers, Sequences, FiniteSets, TLC

VARIABLES
    fs,              \* the disk: directory -> [exists, files: filename -> file state]
    presetFile,      \* the file at PRESET_PATH
    MAX_PER_COLOR,   \* the constant imported from mosaic_core
    _tile_cache,     \* module global, line 39
    _global_preset,  \* module global, line 40
    allocs,          \* number of tile dicts created so far (object identity)
    phase,           \* lifecycle of the process: "boot", "serving", "aborted"
    reqs,            \* the /mosaic3d requests in flight: slot -> record
    done,            \* the exchange completed last: its route, inputs, stages and response
    tileCall,        \* the last direct call of load_tile_images and its result
    presetCall       \* the last direct call of load_preset_from_json and its result

vars == <<fs, presetFile, MAX_PER_COLOR, _tile_cache, _global_preset, allocs,
          phase, reqs, done, tileCall, presetCall>>

None == [py |-> "None"]

\* ------------------------------------------------------------------ settings

PRESET_PATH == "lego_mosaic_best_preset (4).json"

TILE_MAP ==
    [i \in 0..4 |->
        CASE i = 0 -> "RGB (220, 224, 225).png"
          [] i = 1 -> "RGB (150, 160, 171).png"
          [] i = 2 -> "RGB (88, 99, 110).png"
          [] i = 3 -> "RGB (35, 46, 59).png"
          [] i = 4 -> "RGB (20, 25, 30).png"]

\* TILE_MAP.items() / TILE_MAP.values() iterate in insertion order 0, 1, 2, 3, 4.
TileIdx == DOMAIN TILE_MAP

TileNames == {TILE_MAP[i] : i \in TileIdx}

TileValues == [k \in 1..5 |-> TILE_MAP[k - 1]]

\* ------------------------------------------------------------------ the disk

TilesDir == "tiles"

MntData == "/mnt/data"

Cwd == "."

SourceTiles == "<source dir>/tiles"

CustomDir == "custom"

Dirs == {TilesDir, MntData, Cwd, SourceTiles, CustomDir}

\* A tile file is absent, present but not openable as an image, or a PNG stored
\* in colour mode RGB or RGBA.
FileStates == {"absent", "corrupt", "RGB", "RGBA"}

DirExists(disk, d) == disk[d].exists

\* Path(d) / name .exists(); P(filename) alone resolves against the current directory.
FileExists(disk, d, name) == disk[d].exists /\ disk[d].files[name] # "absent"

\* Image.open(path).convert("RGB"): the bitmap read from the path, colour mode set to RGB.
ImageOpen(disk, d, name) ==
    [py |-> "Image", dir |-> d, file |-> name, mode |-> disk[d].files[name]]

ConvertRGB(img) == [img EXCEPT !.mode = "RGB"]

OpenFails(disk, d, name) == disk[d].files[name] \notin {"RGB", "RGBA"}

\* ------------------------------------------------------------------ exceptions

\* A raised exception: its Python type, the fixed text of its message, the file
\* names the message lists (in order), and the directory or path it mentions.
Error(type, text, files, where) ==
    [py |-> "Error", type |-> type, text |-> text, files |-> files, where |-> where]

\* str(e) as it is interpolated into an HTTPException detail.
ErrorStr(e) == [text |-> e.text, files |-> e.files, where |-> e.where]

\* ------------------------------------------------------------------ preset loader

PresetFields ==
    <<"blur", "unsharp_radius", "unsharp_percent", "contrast", "brightness", "gamma">>

\* Numbers are kept in tenths: 2.0 is [t |-> "float", tenths |-> 20], 3 is
\* [t |-> "int", tenths |-> 30].
PyNum(t, tenths) == [t |-> t, tenths |-> tenths]

\* Mutant: every default zero.
PresetDefault_AllZero(field) ==
    IF field = "unsharp_percent" THEN PyNum("int", 0) ELSE PyNum("float", 0)

\* The second argument of preset_dict.get(field, default), lines 74-79.
PresetDefault(field) ==
    CASE field = "blur" -> PyNum("float", 0)
      [] field = "unsharp_radius" -> PyNum("float", 0)
      [] field = "unsharp_percent" -> PyNum("int", 0)
      [] field = "contrast" -> PyNum("float", 10)
      [] field = "brightness" -> PyNum("float", 10)
      [] field = "gamma" -> PyNum("float", 10)

\* JSON values a field can hold: t is "int", "float", "intstr" (a string such as
\* "3"), "floatstr" (a string such as "2.5"), "badstr" (a string that is no
\* number) or "null".
TruncTenths(n) == IF n >= 0 THEN (n \div 10) * 10 ELSE 0 - (((0 - n) \div 10) * 10)

\* float(v)
PyFloat(v) ==
    CASE v.t \in {"int", "float", "intstr", "floatstr"} ->
            [raised |-> FALSE, value |-> PyNum("float", v.tenths), error |-> None]
      [] v.t = "badstr" ->
            [raised |-> TRUE, value |-> None,
             error |-> Error("ValueError", "could not convert string to float", <<>>, "")]
      [] OTHER ->
            [raised |-> TRUE, value |-> None,
             error |-> Error("TypeError", "float() argument must be a string or a number", <<>>, "")]

\* int(v): truncates a float toward zero, refuses a string that is not an integer literal.
PyInt(v) ==
    CASE v.t \in {"int", "intstr"} ->
            [raised |-> FALSE, value |-> PyNum("int", v.tenths), error |-> None]
      [] v.t = "float" ->
            [raised |-> FALSE, value |-> PyNum("int", TruncTenths(v.tenths)), error |-> None]
      [] v.t \in {"floatstr", "badstr"} ->
            [raised |-> TRUE, value |-> None,
             error |-> Error("ValueError", "invalid literal for int() with base 10", <<>>, "")]
      [] OTHER ->
            [raised |-> TRUE, value |-> None,
             error |-> Error("TypeError", "int() argument must be a string or a number", <<>>, "")]

\* preset_dict.get(field, default)
DictGet(d, field, default) == IF field \in DOMAIN d THEN d[field] ELSE default

\* One keyword argument of Preset(...), lines 74-79.
CoerceField(d, field) ==
    IF field = "unsharp_percent"
    THEN PyInt(DictGet(d, field, PresetDefault(field)))
    ELSE PyFloat(DictGet(d, field, PresetDefault(field)))

\* The arguments are evaluated in order; the first coercion that raises ends the call.
RECURSIVE BuildPreset(_, _, _)
BuildPreset(d, k, acc) ==
    IF k > Len(PresetFields)
    THEN [raised |-> FALSE, value |-> acc, error |-> None]
    ELSE LET field == PresetFields[k]
             c == CoerceField(d, field)
         IN IF c.raised
            THEN [raised |-> TRUE, value |-> None, error |-> c.error]
            ELSE BuildPreset(d, k + 1, [acc EXCEPT ![field] = c.value])

EmptyPreset ==
    [py |-> "Preset", blur |-> None, unsharp_radius |-> None, unsharp_percent |-> None,
     contrast |-> None, brightness |-> None, gamma |-> None]

\* A file is [exists, valid (parses as JSON), isObject (top level is a mapping),
\* dict (the mapping's fields)].
load_preset_from_json(file) ==
    IF ~file.exists
    THEN [raised |-> TRUE, value |-> None,
          error |-> Error("FileNotFoundError", "Preset JSON not found at", <<>>, PRESET_PATH)]
    ELSE IF ~file.valid
    THEN [raised |-> TRUE, value |-> None,
          error |-> Error("JSONDecodeError", "Expecting value", <<>>, "")]
    ELSE IF ~file.isObject
    THEN [raised |-> TRUE, value |-> None,
          error |-> Error("AttributeError", "object has no attribute 'get'", <<>>, "")]
    ELSE BuildPreset(file.dict, 1, EmptyPreset)

\* ------------------------------------------------------------------ tile resolver/cache

Path(d) == [py |-> "Path", dir |-> d]

\* One disk access: op is "exists" or "open"; file is "" for a directory check.
Access(op, d, name) == [op |-> op, dir |-> d, file |-> name]

\* Mutant: the candidates in the order of the docstring, the current
\* directory before /mnt/data.
search_paths_RootFirst(tiles_dir) == <<tiles_dir, TilesDir, Cwd, MntData, SourceTiles>>

\* lines 100-106
search_paths(tiles_dir) == <<tiles_dir, TilesDir, MntData, Cwd, SourceTiles>>

\* lines 108-114: the first candidate that exists and holds TILE_MAP[0].
RECURSIVE ProbeCandidates(_, _, _, _)
ProbeCandidates(disk, paths, k, log) ==
    IF k > Len(paths)
    THEN [tiles_path |-> None, log |-> log]
    ELSE LET d == paths[k]
             log1 == Append(log, Access("exists", d, ""))
             log2 == Append(log1, Access("exists", d, TILE_MAP[0]))
         IN IF DirExists(disk, d)
            THEN IF FileExists(disk, d, TILE_MAP[0])
                 THEN [tiles_path |-> Path(d), log |-> log2]
                 ELSE ProbeCandidates(disk, paths, k + 1, log2)
            ELSE ProbeCandidates(disk, paths, k + 1, log1)

\* Mutant: the fallback looks for the file of entry 0 only.
FallbackCwd_ProbeOnly(disk, k, log) ==
    LET log1 == Append(log, Access("exists", Cwd, TileValues[1]))
    IN IF FileExists(disk, Cwd, TileValues[1])
       THEN [tiles_path |-> Path(Cwd), log |-> log1]
       ELSE [tiles_path |-> None, log |-> log1]

\* Mutant: the current-directory fallback dropped.
FallbackCwd_Dropped(disk, k, log) == [tiles_path |-> None, log |-> log]

\* lines 116-121: any catalog file in the current directory selects Path(".").
RECURSIVE FallbackCwd(_, _, _)
FallbackCwd(disk, k, log) ==
    IF k > Len(TileValues)
    THEN [tiles_path |-> None, log |-> log]
    ELSE LET log1 == Append(log, Access("exists", Cwd, TileValues[k]))
         IN IF FileExists(disk, Cwd, TileValues[k])
            THEN [tiles_path |-> Path(Cwd), log |-> log1]
            ELSE FallbackCwd(disk, k + 1, log1)

\* lines 108-121
ResolveTilesPath(disk, tiles_dir) ==
    LET probe == ProbeCandidates(disk, search_paths(tiles_dir), 1, <<>>)
    IN IF probe.tiles_path = None THEN FallbackCwd(disk, 1, probe.log) ELSE probe

EmptyDict == [i \in {} |-> None]

\* lines 132-144: every entry is loaded from tiles_path; the first entry that
\* is absent or cannot be opened ends the call.
RECURSIVE LoadEntries(_, _, _, _, _)
LoadEntries(disk, tiles_path, idx, tile_images, log) ==
    IF idx \notin TileIdx
    THEN [raised |-> FALSE, error |-> None, tile_images |-> tile_images, log |-> log]
    ELSE LET filename == TILE_MAP[idx]
             d == tiles_path.dir
             log1 == Append(log, Access("exists", d, filename))
             log2 == Append(log1, Access("open", d, filename))
         IN IF ~FileExists(disk, d, filename)
            THEN [raised |-> TRUE,
                  error |-> Error("FileNotFoundError", "Tile image not found", <<filename>>, d),
                  tile_images |-> tile_images, log |-> log1]
            ELSE IF OpenFails(disk, d, filename)
            THEN [raised |-> TRUE,
                  error |-> Error("IOError", "Failed to load tile image", <<filename>>, ""),
                  tile_images |-> tile_images, log |-> log2]
            ELSE LoadEntries(disk, tiles_path, idx + 1,
                             tile_images @@ (idx :> ConvertRGB(ImageOpen(disk, d, filename))),
                             log2)

\* Mutant: the early return on a populated cache dropped.
load_tile_images_Reload(tiles_dir, cache, disk, nalloc) ==
    LET found == ResolveTilesPath(disk, tiles_dir)
    IN IF found.tiles_path = None
       THEN [raised |-> TRUE, value |-> None,
             error |-> Error("FileNotFoundError", "Tile images not found", TileValues, ""),
             cache |-> cache, log |-> found.log, allocs |-> nalloc]
       ELSE LET loaded == LoadEntries(disk, found.tiles_path, 0, EmptyDict, found.log)
                obj == [py |-> "dict", id |-> nalloc + 1, items |-> loaded.tile_images]
            IN IF loaded.raised
               THEN [raised |-> TRUE, value |-> None, error |-> loaded.error,
                     cache |-> cache, log |-> loaded.log, allocs |-> nalloc + 1]
               ELSE [raised |-> FALSE, value |-> obj, error |-> None,
                     cache |-> obj, log |-> loaded.log, allocs |-> nalloc + 1]

\* Mutant: the global bound to the dict before the loop fills it.
load_tile_images_EarlyPublish(tiles_dir, cache, disk, nalloc) ==
    IF cache # None
    THEN [raised |-> FALSE, value |-> cache, error |-> None, cache |-> cache,
          log |-> <<>>, allocs |-> nalloc]
    ELSE LET found == ResolveTilesPath(disk, tiles_dir)
         IN IF found.tiles_path = None
            THEN [raised |-> TRUE, value |-> None,
                  error |-> Error("FileNotFoundError", "Tile images not found", TileValues, ""),
                  cache |-> cache, log |-> found.log, allocs |-> nalloc]
            ELSE LET loaded == LoadEntries(disk, found.tiles_path, 0, EmptyDict, found.log)
                     obj == [py |-> "dict", id |-> nalloc + 1, items |-> loaded.tile_images]
                 IN [raised |-> loaded.raised,
                     value |-> IF loaded.raised THEN None ELSE obj,
                     error |-> loaded.error, cache |-> obj, log |-> loaded.log,
                     allocs |-> nalloc + 1]

\* Mutant: the loaded mapping returned without being stored in the global.
load_tile_images_NoPublish(tiles_dir, cache, disk, nalloc) ==
    IF cache # None
    THEN [raised |-> FALSE, value |-> cache, error |-> None, cache |-> cache,
          log |-> <<>>, allocs |-> nalloc]
    ELSE LET found == ResolveTilesPath(disk, tiles_dir)
         IN IF found.tiles_path = None
            THEN [raised |-> TRUE, value |-> None,
                  error |-> Error("FileNotFoundError", "Tile images not found", TileValues, ""),
                  cache |-> cache, log |-> found.log, allocs |-> nalloc]
            ELSE LET loaded == LoadEntries(disk, found.tiles_path, 0, EmptyDict, found.log)
                     obj == [py |-> "dict", id |-> nalloc + 1, items |-> loaded.tile_images]
                 IN IF loaded.raised
                    THEN [raised |-> TRUE, value |-> None, error |-> loaded.error,
                          cache |-> cache, log |-> loaded.log, allocs |-> nalloc + 1]
                    ELSE [raised |-> FALSE, value |-> obj, error |-> None,
                          cache |-> cache, log |-> loaded.log,
                          allocs |-> nalloc + 1]

\* Mutant: the cache honoured only for the directory it was loaded from.
load_tile_images_PerDirectory(tiles_dir, cache, disk, nalloc) ==
    IF cache # None /\ (tiles_dir = TilesDir \/ cache.items[0].dir = tiles_dir)
    THEN [raised |-> FALSE, value |-> cache, error |-> None, cache |-> cache,
          log |-> <<>>, allocs |-> nalloc]
    ELSE LET found == ResolveTilesPath(disk, tiles_dir)
         IN IF found.tiles_path = None
            THEN [raised |-> TRUE, value |-> None,
                  error |-> Error("FileNotFoundError", "Tile images not found", TileValues, ""),
                  cache |-> cache, log |-> found.log, allocs |-> nalloc]
            ELSE LET loaded == LoadEntries(disk, found.tiles_path, 0, EmptyDict, found.log)
                     obj == [py |-> "dict", id |-> nalloc + 1, items |-> loaded.tile_images]
                 IN IF loaded.raised
                    THEN [raised |-> TRUE, value |-> None, error |-> loaded.error,
                          cache |-> cache, log |-> loaded.log, allocs |-> nalloc + 1]
                    ELSE [raised |-> FALSE, value |-> obj, error |-> None,
                          cache |-> obj, log |-> loaded.log,
                          allocs |-> nalloc + 1]

\* lines 83-147. cache is the global _tile_cache at the call, nalloc the number
\* of dicts created before it. The result gives the exception or the returned
\* object, the global after the call, and the disk accesses made.
load_tile_images(tiles_dir, cache, disk, nalloc) ==
    IF cache # None
    THEN [raised |-> FALSE, value |-> cache, error |-> None, cache |-> cache,
          log |-> <<>>, allocs |-> nalloc]
    ELSE LET found == ResolveTilesPath(disk, tiles_dir)
         IN IF found.tiles_path = None
            THEN [raised |-> TRUE, value |-> None,
                  error |-> Error("FileNotFoundError", "Tile images not found", TileValues, ""),
                  cache |-> cache, log |-> found.log, allocs |-> nalloc]
            ELSE LET loaded == LoadEntries(disk, found.tiles_path, 0, EmptyDict, found.log)
                     obj == [py |-> "dict", id |-> nalloc + 1, items |-> loaded.tile_images]
                 IN IF loaded.raised
                    THEN [raised |-> TRUE, value |-> None, error |-> loaded.error,
                          cache |-> cache, log |-> loaded.log, allocs |-> nalloc + 1]
                    ELSE [raised |-> FALSE, value |-> obj, error |-> None,
                          cache |-> obj, log |-> loaded.log,
                          allocs |-> nalloc + 1]

\* ------------------------------------------------------------------ opaque stages

\* An exception raised inside one of the imported stages (or while reading or
\* decoding the upload): the stage names it.
StageError(stage) == Error("Exception", stage, <<>>, "")

\* The upload is an image, bytes that are no image, or a stream whose read fails.
Payloads == {"image", "garbage", "unreadable"}

\* Image.open(BytesIO(raw_bytes)) on an image payload.
UploadImage == [py |-> "Image", dir |-> "<upload>", file |-> "file", mode |-> "RGBA"]

\* The value an opaque call returns: the call itself, as a term.
Returned(call) == [py |-> "Returned", by |-> call]

\* ------------------------------------------------------------------ responses

\* raise HTTPException(status_code=..., detail=f"{text}{cause}")
HTTPException(status, text, cause) ==
    [py |-> "Response", status |-> status, media_type |-> "application/json",
     detail |-> [text |-> text, cause |-> cause], body |-> None]

\* StreamingResponse(buf, media_type="image/png"), buf the PNG encoding of img
StreamingResponse(img) ==
    [py |-> "Response", status |-> 200, media_type |-> "image/png",
     detail |-> None, body |-> [py |-> "PNG", of |-> img]]

\* An exception that leaves the handler uncaught: the framework answers 500
\* with a plain body and no detail.
UnhandledError ==
    [py |-> "Response", status |-> 500, media_type |-> "text/plain",
     detail |-> None, body |-> "Internal Server Error"]

\* ------------------------------------------------------------------ /mosaic3d

\* Mutant: the size check as a lower bound.
SizeAllowed_AtLeast64(size) == size >= 64

\* line 204
SizeAllowed(size) == size \in {64, 96}

\* Mutant: the two budgets exchanged.
BudgetFor_Swapped(size, maxpc) == IF size = 64 THEN 2900 ELSE maxpc

\* lines 215-218
BudgetFor(size, maxpc) == IF size = 96 THEN 2900 ELSE maxpc

\* The end of a handler run: the stages invoked (in order), the response, and
\* the tile cache global and allocation count it leaves.
Finished(calls, response, cache, nalloc) ==
    [calls |-> calls, response |-> response, cache |-> cache, allocs |-> nalloc]

\* lines 201-209, up to the suspension at await file.read(). entered says
\* whether the handler got as far as the read.
generate_entry(preset, size) ==
    IF preset = None
    THEN [entered |-> FALSE, calls |-> <<>>,
          response |-> HTTPException(500, "Preset not loaded", None)]
    ELSE IF ~SizeAllowed(size)
    THEN [entered |-> FALSE, calls |-> <<>>,
          response |-> HTTPException(400, "size must be 64 or 96", None)]
    ELSE [entered |-> TRUE, calls |-> <<>>, response |-> None]

\* Mutant: the handler loads the tiles afresh for every render.
RenderStage_Fresh(calls, indices, cache, disk, nalloc, out) ==
    LET t == load_tile_images(TilesDir, None, disk, nalloc)
        callT == [stage |-> "load_tile_images", tiles_dir |-> TilesDir,
                  raised |-> t.raised, value |-> t.value, error |-> t.error,
                  log |-> t.log]
        callR == [stage |-> "render_3d_mosaic", indices |-> indices,
                  tile_images |-> t.value, max_output_size |-> <<1920, 1080>>,
                  raised |-> out.render = "raise"]
        callS == [stage |-> "save", format |-> "PNG", raised |-> out.save = "raise"]
        calls1 == Append(calls, callT)
        calls2 == Append(calls1, callR)
    IN IF t.raised
       THEN Finished(calls1,
                     HTTPException(500, "Error generating 3D mosaic: ", ErrorStr(t.error)),
                     t.cache, t.allocs)
       ELSE IF out.render = "raise"
       THEN Finished(calls2,
                     HTTPException(500, "Error generating 3D mosaic: ",
                                   ErrorStr(StageError("render_3d_mosaic"))),
                     t.cache, t.allocs)
       ELSE IF out.save = "raise"
       THEN Finished(Append(calls2, callS), UnhandledError, t.cache, t.allocs)
       ELSE Finished(Append(calls2, callS),
                     StreamingResponse(Returned(callR)), t.cache, t.allocs)

\* Mutant: a failed tile lookup remembered, an empty mapping left in the global.
RenderStage_NegativeCache(calls, indices, cache, disk, nalloc, out) ==
    LET t == load_tile_images(TilesDir, cache, disk, nalloc)
        callT == [stage |-> "load_tile_images", tiles_dir |-> TilesDir,
                  raised |-> t.raised, value |-> t.value, error |-> t.error,
                  log |-> t.log]
        callR == [stage |-> "render_3d_mosaic", indices |-> indices,
                  tile_images |-> t.value, max_output_size |-> <<1920, 1080>>,
                  raised |-> out.render = "raise"]
        callS == [stage |-> "save", format |-> "PNG", raised |-> out.save = "raise"]
        calls1 == Append(calls, callT)
        calls2 == Append(calls1, callR)
    IN IF t.raised
       THEN Finished(calls1,
                     HTTPException(500, "Error generating 3D mosaic: ", ErrorStr(t.error)),
                     [py |-> "dict", id |-> t.allocs, items |-> EmptyDict], t.allocs)
       ELSE IF out.render = "raise"
       THEN Finished(calls2,
                     HTTPException(500, "Error generating 3D mosaic: ",
                                   ErrorStr(StageError("render_3d_mosaic"))),
                     t.cache, t.allocs)
       ELSE IF out.save = "raise"
       THEN Finished(Append(calls2, callS), UnhandledError, t.cache, t.allocs)
       ELSE Finished(Append(calls2, callS),
                     StreamingResponse(Returned(callR)), t.cache, t.allocs)

\* lines 237-246: tile lookup and render, one try block.
RenderStage(calls, indices, cache, disk, nalloc, out) ==
    LET t == load_tile_images(TilesDir, cache, disk, nalloc)
        callT == [stage |-> "load_tile_images", tiles_dir |-> TilesDir,
                  raised |-> t.raised, value |-> t.value, error |-> t.error,
                  log |-> t.log]
        callR == [stage |-> "render_3d_mosaic", indices |-> indices,
                  tile_images |-> t.value, max_output_size |-> <<1920, 1080>>,
                  raised |-> out.render = "raise"]
        callS == [stage |-> "save", format |-> "PNG", raised |-> out.save = "raise"]
        calls1 == Append(calls, callT)
        calls2 == Append(calls1, callR)
    IN IF t.raised
       THEN Finished(calls1,
                     HTTPException(500, "Error generating 3D mosaic: ", ErrorStr(t.error)),
                     t.cache, t.allocs)
       ELSE IF out.render = "raise"
       THEN Finished(calls2,
                     HTTPException(500, "Error generating 3D mosaic: ",
                                   ErrorStr(StageError("render_3d_mosaic"))),
                     t.cache, t.allocs)
       ELSE IF out.save = "raise"
       THEN Finished(Append(calls2, callS), UnhandledError, t.cache, t.allocs)
       ELSE Finished(Append(calls2, callS),
                     StreamingResponse(Returned(callR)), t.cache, t.allocs)

\* Mutant: a failure of idx_image reported as a client error without its cause.
ProcessStages_Idx400(calls, img, size, preset, cache, disk, nalloc, maxpc, out) ==
    LET max_per_color == BudgetFor(size, maxpc)
        callA == [stage |-> "apply_preset_once", img |-> img, preset |-> preset,
                  size |-> size, max_per_color |-> max_per_color,
                  raised |-> out.apply = "raise"]
        callI == [stage |-> "idx_image", img |-> Returned(callA),
                  raised |-> out.idx = "raise"]
        calls1 == Append(calls, callA)
        calls2 == Append(calls1, callI)
    IN IF out.apply = "raise"
       THEN Finished(calls1,
                     HTTPException(500, "Error generating 2D mosaic: ",
                                   ErrorStr(StageError("apply_preset_once"))),
                     cache, nalloc)
       ELSE IF out.idx = "raise"
       THEN Finished(calls2,
                     HTTPException(400, "Error computing palette indices", None),
                     cache, nalloc)
       ELSE RenderStage(calls2, Returned(callI), cache, disk, nalloc, out)

\* Mutant: apply_preset_once tried a second time when it raises.
ProcessStages_Retry(calls, img, size, preset, cache, disk, nalloc, maxpc, out) ==
    LET max_per_color == BudgetFor(size, maxpc)
        callA == [stage |-> "apply_preset_once", img |-> img, preset |-> preset,
                  size |-> size, max_per_color |-> max_per_color,
                  raised |-> out.apply = "raise"]
        callI == [stage |-> "idx_image", img |-> Returned(callA),
                  raised |-> out.idx = "raise"]
        calls1 == Append(calls, callA)
        calls2 == Append(calls1, callI)
    IN IF out.apply = "raise"
       THEN Finished(Append(calls1, callA),
                     HTTPException(500, "Error generating 2D mosaic: ",
                                   ErrorStr(StageError("apply_preset_once"))),
                     cache, nalloc)
       ELSE IF out.idx = "raise"
       THEN Finished(calls2,
                     HTTPException(500, "Error computing palette indices: ",
                                   ErrorStr(StageError("idx_image"))),
                     cache, nalloc)
       ELSE RenderStage(calls2, Returned(callI), cache, disk, nalloc, out)

\* lines 214-235: budget selection, adjust-and-quantize, index extraction.
ProcessStages(calls, img, size, preset, cache, disk, nalloc, maxpc, out) ==
    LET max_per_color == BudgetFor(size, maxpc)
        callA == [stage |-> "apply_preset_once", img |-> img, preset |-> preset,
                  size |-> size, max_per_color |-> max_per_color,
                  raised |-> out.apply = "raise"]
        callI == [stage |-> "idx_image", img |-> Returned(callA),
                  raised |-> out.idx = "raise"]
        calls1 == Append(calls, callA)
        calls2 == Append(calls1, callI)
    IN IF out.apply = "raise"
       THEN Finished(calls1,
                     HTTPException(500, "Error generating 2D mosaic: ",
                                   ErrorStr(StageError("apply_preset_once"))),
                     cache, nalloc)
       ELSE IF out.idx = "raise"
       THEN Finished(calls2,
                     HTTPException(500, "Error computing palette indices: ",
                                   ErrorStr(StageError("idx_image"))),
                     cache, nalloc)
       ELSE RenderStage(calls2, Returned(callI), cache, disk, nalloc, out)

\* Mutant: an undecodable upload handled as a processing failure, after the
\* tiles have been looked up.
generate_resume_Decode500(req, payload, preset, cache, disk, nalloc, maxpc, out) ==
    LET calls0 == Append(req.calls,
                         [stage |-> "file.read", raised |-> payload = "unreadable"])
        calls1 == Append(calls0,
                         [stage |-> "Image.open", raised |-> payload = "garbage"])
        t == load_tile_images(TilesDir, cache, disk, nalloc)
        callT == [stage |-> "load_tile_images", tiles_dir |-> TilesDir,
                  raised |-> t.raised, value |-> t.value, error |-> t.error,
                  log |-> t.log]
    IN IF payload = "unreadable"
       THEN Finished(calls0,
                     HTTPException(400, "Failed to read image: ",
                                   ErrorStr(StageError("file.read"))),
                     cache, nalloc)
       ELSE IF payload = "garbage"
       THEN Finished(Append(calls1, callT),
                     HTTPException(500, "Error generating 2D mosaic: ",
                                   ErrorStr(StageError("Image.open"))),
                     t.cache, t.allocs)
       ELSE ProcessStages(calls1, ConvertRGB(UploadImage), req.size, preset,
                          cache, disk, nalloc, maxpc, out)

\* lines 209-252, from the completion of file.read() to the response. req is
\* the suspended request, payload what the read yields, preset and cache the
\* globals at that time, out the outcome ("ok" or "raise") of each opaque stage
\* should it be reached.
generate_resume(req, payload, preset, cache, disk, nalloc, maxpc, out) ==
    LET calls0 == Append(req.calls,
                         [stage |-> "file.read", raised |-> payload = "unreadable"])
        calls1 == Append(calls0,
                         [stage |-> "Image.open", raised |-> payload = "garbage"])
    IN IF payload = "unreadable"
       THEN Finished(calls0,
                     HTTPException(400, "Failed to read image: ",
                                   ErrorStr(StageError("file.read"))),
                     cache, nalloc)
       ELSE IF payload = "garbage"
       THEN Finished(calls1,
                     HTTPException(400, "Failed to read image: ",
                                   ErrorStr(StageError("Image.open"))),
                     cache, nalloc)
       ELSE ProcessStages(calls1, ConvertRGB(UploadImage), req.size, preset,
                          cache, disk, nalloc, maxpc, out)

\* ------------------------------------------------------------------ startup, /health

\* Mutant: a failure to load the tiles logged and swallowed by the hook.
startup_event_Swallow(file, preset, cache, disk, nalloc) ==
    LET p == load_preset_from_json(file)
        t == load_tile_images(TilesDir, cache, disk, nalloc)
    IN IF p.raised
       THEN [raised |-> TRUE, error |-> p.error, preset |-> preset, cache |-> cache,
             allocs |-> nalloc]
       ELSE [raised |-> FALSE, error |-> None, preset |-> p.value,
             cache |-> IF t.raised THEN t.cache ELSE t.value, allocs |-> t.allocs]

\* lines 156-161. The result gives the two globals after the hook and whether
\* it raised.
startup_event(file, preset, cache, disk, nalloc) ==
    LET p == load_preset_from_json(file)
        t == load_tile_images(TilesDir, cache, disk, nalloc)
    IN IF p.raised
       THEN [raised |-> TRUE, error |-> p.error, preset |-> preset, cache |-> cache,
             allocs |-> nalloc]
       ELSE IF t.raised
       THEN [raised |-> TRUE, error |-> t.error, preset |-> p.value, cache |-> t.cache,
             allocs |-> t.allocs]
       ELSE [raised |-> FALSE, error |-> None, preset |-> p.value, cache |-> t.value,
             allocs |-> t.allocs]

\* lines 169-172
health == [py |-> "Response", status |-> 200, media_type |-> "application/json",
           detail |-> None, body |-> [status |-> "ok"]]

\* ------------------------------------------------------------------ bounds and inputs

\* At most this many directories hold tile files when the resolver is explored.
MaxPopulated == 2

\* Tile dicts created (line 130) in one run of the process.
MaxAllocs == 2

\* Requests in flight at once.
MaxReqs == 2

Slots == 1..MaxReqs

SizeInputs == {0, 64, 96, 128}

\* What each opaque stage does should it be reached. A stage after the first
\* one that raises is not reached by the handler, so at most one raises here.
Stages == {"apply", "idx", "render", "save"}

OutcomeWhere(failing) == [st \in Stages |-> IF st = failing THEN "raise" ELSE "ok"]

StageOutcomes == {OutcomeWhere(failing) : failing \in Stages \cup {"none"}}

\* The inputs of a resumed handler: no opaque stage is reached unless the
\* upload is an image.
ResumeInputs ==
    {<<payload, out>> \in Payloads \X StageOutcomes :
        payload # "image" => out = OutcomeWhere("none")}

\* Values the imported MAX_PER_COLOR may have.
MaxPerColorValues == {1450, 2900}

\* What a directory holds: nothing (or it does not exist), the full set in one
\* colour mode, the full set but for entry k (absent or corrupt), or entry k alone.
Profile(kind, k, mode) == [kind |-> kind, k |-> k, mode |-> mode]

NoDir == Profile("nodir", 0, "RGB")

EmptyDir == Profile("empty", 0, "RGB")

FullDir(mode) == Profile("full", 0, mode)

MissingOne(k) == Profile("missing", k, "RGB")

CorruptOne(k) == Profile("corrupt", k, "RGB")

OnlyOne(k) == Profile("only", k, "RGB")

ProfileFile(p, name) ==
    CASE p.kind \in {"nodir", "empty"} -> "absent"
      [] p.kind = "full" -> p.mode
      [] p.kind = "missing" -> IF name = TILE_MAP[p.k] THEN "absent" ELSE p.mode
      [] p.kind = "corrupt" -> IF name = TILE_MAP[p.k] THEN "corrupt" ELSE p.mode
      [] p.kind = "only" -> IF name = TILE_MAP[p.k] THEN p.mode ELSE "absent"

DirOf(p) == [exists |-> p.kind # "nodir", files |-> [name \in TileNames |-> ProfileFile(p, name)]]

\* The current directory of a running process exists.
Unpopulated(d) == IF d = Cwd THEN DirOf(EmptyDir) ELSE DirOf(NoDir)

\* The disk in which the directories of DOMAIN f hold what f says and the others nothing.
DiskOf(f) == [d \in Dirs |-> IF d \in DOMAIN f THEN DirOf(f[d]) ELSE Unpopulated(d)]

\* disk is one in which at most n directories of dirs hold something, each
\* what one of profiles says.
DiskOver(disk, dirs, profiles, n) ==
    \E S \in SUBSET dirs :
        /\ Cardinality(S) <= n
        /\ \E f \in [S -> profiles] : disk = DiskOf(f)

\* Any entry may be the absent one; the corrupt one, or the only one, is the
\* first, a middle or the last entry.
AllProfiles ==
    {EmptyDir, FullDir("RGB"), FullDir("RGBA")}
        \cup {MissingOne(k) : k \in TileIdx}
        \cup {CorruptOne(k) : k \in {0, 2, 4}}
        \cup {OnlyOne(k) : k \in {0, 2, 4}}

\* Disks the resolver is explored on.
TileDisk(disk) == DiskOver(disk, Dirs, AllProfiles, MaxPopulated)

DisksOver(dirs, profiles, n) ==
    UNION { {DiskOf(f) : f \in [S -> profiles]} :
            S \in {T \in SUBSET dirs : Cardinality(T) <= n} }

\* Disks the service is deployed on, and to which its disk may change.
ServiceDisks ==
    DisksOver({TilesDir}, {FullDir("RGBA"), MissingOne(3), CorruptOne(1)}, 1)
        \cup DisksOver({MntData}, {FullDir("RGB")}, 1)

\* Disks the cache is explored on, which may change between calls.
CacheDisks ==
    DisksOver({TilesDir, CustomDir, Cwd},
              {FullDir("RGB"), MissingOne(3), CorruptOne(1), OnlyOne(2)}, 2)

PresetFile(exists, valid, isObject, dict) ==
    [exists |-> exists, valid |-> valid, isObject |-> isObject, dict |-> dict]

NoPresetFile == PresetFile(FALSE, FALSE, FALSE, EmptyDict)

MalformedPresetFile == PresetFile(TRUE, FALSE, FALSE, EmptyDict)

PresetObject(dict) == PresetFile(TRUE, TRUE, TRUE, dict)

\* Preset files the service is deployed with.
ServicePresetFiles ==
    {NoPresetFile, MalformedPresetFile, PresetObject(EmptyDict),
     PresetObject([f \in {"gamma", "unsharp_percent"} |->
                      IF f = "gamma" THEN PyNum("float", 20) ELSE PyNum("float", 1505)])}

\* At most this many fields are present in a preset file when the preset
\* loader is explored.
MaxFields == 2

\* Values a field of a preset file holds: 3, 2.0, 150.5, -2.5, "3", "2.5",
\* "high", null.
PresetValues ==
    {PyNum("int", 30), PyNum("float", 20), PyNum("float", 1505), PyNum("float", -25),
     PyNum("intstr", 30), PyNum("floatstr", 25), PyNum("badstr", 0), PyNum("null", 0)}

PresetFieldSet == {PresetFields[k] : k \in 1..Len(PresetFields)}

PresetDicts ==
    UNION { [S -> PresetValues] :
            S \in {T \in SUBSET PresetFieldSet : Cardinality(T) <= MaxFields} }

\* A file whose JSON is not a mapping (a list, a number).
NonObjectPresetFile == PresetFile(TRUE, TRUE, FALSE, EmptyDict)

\* Preset files the loader is explored on.
PresetFiles ==
    {NoPresetFile, MalformedPresetFile, NonObjectPresetFile}
        \cup {PresetObject(d) : d \in PresetDicts}

Idle == [pc |-> "idle"]

\* ------------------------------------------------------------------ initial states

InitGlobals ==
    /\ _tile_cache = None
    /\ _global_preset = None
    /\ allocs = 0
    /\ phase = "boot"
    /\ reqs = [r \in Slots |-> Idle]
    /\ done = None
    /\ tileCall = None
    /\ presetCall = None

\* The service before its startup hook has run.
Init ==
    /\ fs \in ServiceDisks
    /\ presetFile \in ServicePresetFiles
    /\ MAX_PER_COLOR \in MaxPerColorValues
    /\ InitGlobals

\* The module freshly imported, on any disk of TileDisks.
InitTiles ==
    /\ TileDisk(fs)
    /\ presetFile = NoPresetFile
    /\ MAX_PER_COLOR = 1450
    /\ InitGlobals

InitCache ==
    /\ fs \in CacheDisks
    /\ presetFile = NoPresetFile
    /\ MAX_PER_COLOR = 1450
    /\ InitGlobals

\* The module freshly imported, with any file of PresetFiles at the path.
InitPreset ==
    /\ fs = [d \in Dirs |-> Unpopulated(d)]
    /\ presetFile \in PresetFiles
    /\ MAX_PER_COLOR = 1450
    /\ InitGlobals

\* ------------------------------------------------------------------ actions

\* Mutant: the hook loads the preset only, the tiles being left to the first
\* request that needs them.
Startup_PresetOnly ==
    /\ phase = "boot"
    /\ \E p \in {load_preset_from_json(presetFile)} :
          /\ _global_preset' = IF p.raised THEN _global_preset ELSE p.value
          /\ phase' = IF p.raised THEN "aborted" ELSE "serving"
    /\ UNCHANGED <<fs, presetFile, MAX_PER_COLOR, _tile_cache, allocs, reqs, done,
                   tileCall, presetCall>>

\* The host runs the startup hook, once; if it raises, startup has failed.
Startup ==
    /\ phase = "boot"
    /\ \E s \in {startup_event(presetFile, _global_preset, _tile_cache, fs, allocs)} :
          /\ s.allocs <= MaxAllocs
          /\ _global_preset' = s.preset
          /\ _tile_cache' = s.cache
          /\ allocs' = s.allocs
          /\ phase' = IF s.raised THEN "aborted" ELSE "serving"
    /\ UNCHANGED <<fs, presetFile, MAX_PER_COLOR, reqs, done, tileCall, presetCall>>

DoneRecord(size, payload, preset, calls, response) ==
    [route |-> "/mosaic3d", size |-> size, payload |-> payload, preset |-> preset,
     calls |-> calls, response |-> response]

\* A POST /mosaic3d arrives in slot r and runs to its first suspension or to
\* its rejection. The upload has not been read: its payload is still unknown.
ReqStart(r, size) ==
    /\ reqs[r].pc = "idle"
    /\ \E e \in {generate_entry(_global_preset, size)} :
          IF e.entered
          THEN /\ reqs' = [reqs EXCEPT ![r] = [pc |-> "reading", size |-> size,
                                                calls |-> e.calls,
                                                preset |-> _global_preset]]
               /\ UNCHANGED done
          ELSE /\ done' = DoneRecord(size, "unread", _global_preset, e.calls, e.response)
               /\ UNCHANGED reqs
    /\ UNCHANGED <<fs, presetFile, MAX_PER_COLOR, _tile_cache, _global_preset, allocs,
                   phase, tileCall, presetCall>>

\* The read of slot r's upload completes, giving payload, and the handler runs
\* to its response.
ReqResume(r, payload, out) ==
    /\ reqs[r].pc = "reading"
    /\ \E f \in {generate_resume(reqs[r], payload, _global_preset, _tile_cache, fs,
                                  allocs, MAX_PER_COLOR, out)} :
          /\ f.allocs <= MaxAllocs
          /\ done' = DoneRecord(reqs[r].size, payload, reqs[r].preset,
                                f.calls, f.response)
          /\ _tile_cache' = f.cache
          /\ allocs' = f.allocs
    /\ reqs' = [reqs EXCEPT ![r] = Idle]
    /\ UNCHANGED <<fs, presetFile, MAX_PER_COLOR, _global_preset, phase, tileCall,
                   presetCall>>

\* Mutant: the probe reports whether the tiles are loaded.
Health_Readiness ==
    /\ done' = [route |-> "/health",
                response |-> IF _tile_cache = None
                             THEN [health EXCEPT !.body = [status |-> "loading"]]
                             ELSE health]
    /\ UNCHANGED <<fs, presetFile, MAX_PER_COLOR, _tile_cache, _global_preset, allocs,
                   phase, reqs, tileCall, presetCall>>

\* GET /health
Health ==
    /\ done' = [route |-> "/health", response |-> health]
    /\ UNCHANGED <<fs, presetFile, MAX_PER_COLOR, _tile_cache, _global_preset, allocs,
                   phase, reqs, tileCall, presetCall>>

\* Tile files are deployed, removed or damaged while the process runs.
DiskChange(disks) ==
    /\ fs' \in disks \ {fs}
    /\ UNCHANGED <<presetFile, MAX_PER_COLOR, _tile_cache, _global_preset, allocs,
                   phase, reqs, done, tileCall, presetCall>>

\* load_tile_images(d) called directly.
CallLoadTileImages(d) ==
    /\ \E t \in {load_tile_images(d, _tile_cache, fs, allocs)} :
          /\ t.allocs <= MaxAllocs
          /\ tileCall' = [tiles_dir |-> d, before |-> _tile_cache, raised |-> t.raised,
                          value |-> t.value, error |-> t.error, log |-> t.log]
          /\ _tile_cache' = t.cache
          /\ allocs' = t.allocs
    /\ UNCHANGED <<fs, presetFile, MAX_PER_COLOR, _global_preset, phase, reqs, done,
                   presetCall>>

\* load_preset_from_json(PRESET_PATH) called directly.
CallLoadPresetFromJson ==
    /\ \E p \in {load_preset_from_json(presetFile)} :
          presetCall' = [file |-> presetFile, raised |-> p.raised, value |-> p.value,
                         error |-> p.error]
    /\ UNCHANGED <<fs, presetFile, MAX_PER_COLOR, _tile_cache, _global_preset, allocs,
                   phase, reqs, done, tileCall>>

\* ------------------------------------------------------------------ specifications

Accepting == phase = "serving"

\* The deployed service: the host runs the startup hook first and serves
\* requests only if it did not raise.
Next ==
    \/ Startup
    \/ \E r \in Slots, size \in SizeInputs : Accepting /\ ReqStart(r, size)
    \/ \E r \in Slots, in \in ResumeInputs : Accepting /\ ReqResume(r, in[1], in[2])
    \/ Accepting /\ Health
    \/ DiskChange(ServiceDisks)

Spec == Init /\ [][Next]_vars

\* The application driven without the lifespan protocol (a test client, a
\* mounted sub-application): handlers run whether or not the hook has run or
\* has raised.
NextDirect ==
    \/ Startup
    \/ \E r \in Slots, size \in SizeInputs : ReqStart(r, size)
    \/ \E r \in Slots, in \in ResumeInputs : ReqResume(r, in[1], in[2])
    \/ Health
    \/ DiskChange(ServiceDisks)

SpecDirect == Init /\ [][NextDirect]_vars

\* The tile resolver called on a fixed disk.
NextTiles == \E d \in Dirs : CallLoadTileImages(d)

SpecTiles == InitTiles /\ [][NextTiles]_vars

\* The tile resolver called while the disk changes.
NextCache ==
    \/ \E d \in Dirs : CallLoadTileImages(d)
    \/ DiskChange(CacheDisks)

SpecCache == InitCache /\ [][NextCache]_vars

\* The preset loader called on a fixed file.
NextPreset == CallLoadPresetFromJson

SpecPreset == InitPreset /\ [][NextPreset]_vars

\* ------------------------------------------------------------------ properties

\* The exchange completed last is a POST /mosaic3d.
Mosaic == done # None /\ done.route = "/mosaic3d"

\* The stages of the completed request, in the order they were invoked.
StageNames == [k \in 1..Len(done.calls) |-> done.calls[k].stage]

Invoked(stage) == \E k \in 1..Len(done.calls) : done.calls[k].stage = stage

ProcessingStages ==
    {"apply_preset_once", "idx_image", "load_tile_images", "render_3d_mosaic"}

\* The directories a call with argument d may take tiles from.
CandidateDirs(d) == {d, TilesDir, MntData, Cwd, SourceTiles}

\* The directory a call with argument d settles on: the first candidate in
\* search order that holds entry 0, else the current directory if it holds any
\* catalog file, else "none".
SelectedDir(disk, d) ==
    LET paths == search_paths(d)
        hits == {k \in 1..Len(paths) : FileExists(disk, paths[k], TILE_MAP[0])}
    IN IF hits # {}
       THEN paths[CHOOSE k \in hits : \A j \in hits : k <= j]
       ELSE IF \E name \in TileNames : FileExists(disk, Cwd, name)
       THEN Cwd
       ELSE "none"

Offending(disk, d, i) == disk[d].files[TILE_MAP[i]] \notin {"RGB", "RGBA"}

\* The first catalog entry that is absent from d or cannot be opened there.
FirstOffending(disk, d) ==
    CHOOSE i \in TileIdx : Offending(disk, d, i) /\ \A j \in TileIdx : Offending(disk, d, j) => i <= j

\* C1: a request whose size is neither 64 nor 96 is rejected before the upload
\* is read or decoded and before apply_preset_once, idx_image,
\* load_tile_images or render_3d_mosaic is invoked: it never gets as far as
\* the read, and it completes with no stage invoked and an error status (400
\* "size must be 64 or 96" whenever the preset is loaded).
C1_InvalidSizeRejectedEarly ==
    /\ \A r \in Slots : reqs[r].pc = "reading" => reqs[r].size \in {64, 96}
    /\ (Mosaic /\ done.size \notin {64, 96}) =>
          /\ done.calls = <<>>
          /\ done.payload = "unread"
          /\ done.response.status \in {400, 500}
          /\ done.preset # None =>
                /\ done.response.status = 400
                /\ done.response.detail.text = "size must be 64 or 96"

C1_Witness ==
    /\ Mosaic
    /\ done.size = 128
    /\ done.preset # None
    /\ done.response.status = 400

\* The tile cache maps every index of TILE_MAP to one loaded RGB bitmap of that
\* entry's file.
CacheComplete(cache) ==
    /\ cache # None
    /\ DOMAIN cache.items = TileIdx
    /\ \A i \in TileIdx :
          /\ cache.items[i].py = "Image"
          /\ cache.items[i].file = TILE_MAP[i]
          /\ cache.items[i].mode = "RGB"

C2_ServingInv ==
    /\ Accepting => (_global_preset # None /\ CacheComplete(_tile_cache))
    /\ phase = "aborted" => (done = None /\ \A r \in Slots : reqs[r] = Idle)

C2_StartupStep ==
    /\ (phase = "boot" /\ phase' # "boot"
          /\ (\/ load_preset_from_json(presetFile).raised
              \/ load_tile_images(TilesDir, _tile_cache, fs, allocs).raised))
       => phase' = "aborted"
    /\ phase = "aborted" => phase' = "aborted"

\* C2: whenever the service accepts mosaic requests, _global_preset is loaded
\* and _tile_cache maps each of the indices 0..4 to one loaded bitmap; if
\* load_preset_from_json or load_tile_images fails inside startup_event, the
\* startup aborts, and an aborted service never accepts or handles a request.
C2_AcceptingImpliesLoaded == [](C2_ServingInv) /\ [][C2_StartupStep]_vars

C2_Witness ==
    /\ Accepting
    /\ CacheComplete(_tile_cache)
    /\ _global_preset # None
    /\ Mosaic
    /\ done.response.status = 200

\* C3: once the cache is populated, a call of load_tile_images returns the
\* cached mapping itself (same object, same contents), raises nothing, makes
\* no disk access at all and leaves the cache as it was, whatever the disk
\* holds at that time.
C3_CachedCallIdempotent ==
    (tileCall # None /\ tileCall.before # None) =>
        /\ ~tileCall.raised
        /\ tileCall.value = tileCall.before
        /\ tileCall.log = <<>>
        /\ _tile_cache = tileCall.before

\* A cached call made after the files the cache was loaded from have gone.
C3_Witness ==
    /\ tileCall # None
    /\ tileCall.before # None
    /\ tileCall.value = tileCall.before
    /\ \E i \in TileIdx :
          ~FileExists(fs, tileCall.before.items[i].dir, tileCall.before.items[i].file)

\* Some catalog file is absent from every candidate directory of the last
\* call, which was made with an empty cache.
C4_Pre ==
    /\ tileCall # None
    /\ tileCall.before = None
    /\ \E name \in TileNames :
          \A d \in CandidateDirs(tileCall.tiles_dir) : ~FileExists(fs, d, name)

\* C4 as claimed: with a catalog file absent from every candidate directory,
\* the call fails and its error lists all five file names.
C4_Original ==
    C4_Pre => (tileCall.raised /\ tileCall.error.files = TileValues)

\* C4, amended: with a catalog file absent from every candidate directory, the
\* call fails; its error lists all five file names when no directory is
\* selected (no candidate holds entry 0 and the current directory holds no
\* catalog file), and otherwise names only the first entry that is absent from
\* the selected directory or cannot be opened there.
C4_MissingTileFails ==
    C4_Pre =>
        /\ tileCall.raised
        /\ LET sel == SelectedDir(fs, tileCall.tiles_dir)
           IN IF sel = "none"
              THEN /\ tileCall.error.type = "FileNotFoundError"
                   /\ tileCall.error.files = TileValues
              ELSE tileCall.error.files = <<TILE_MAP[FirstOffending(fs, sel)]>>

\* The fallback selected the current directory and the error names entry 0 alone.
C4_Witness ==
    /\ C4_Pre
    /\ tileCall.raised
    /\ \A d \in CandidateDirs(tileCall.tiles_dir) : ~FileExists(fs, d, TILE_MAP[0])
    /\ tileCall.error.files = <<TILE_MAP[0]>>

\* C5: the cache global is always unset or a mapping of all five indices; a
\* call that raises leaves the global as it was before the call, and when it
\* fails on an entry of the selected directory its error names that entry's
\* file: not found if the file is absent, a load failure if it cannot be opened.
C5_NoPartialCache ==
    /\ (_tile_cache = None \/ DOMAIN _tile_cache.items = TileIdx)
    /\ (tileCall # None /\ tileCall.raised) =>
          /\ _tile_cache = tileCall.before
          /\ LET sel == SelectedDir(fs, tileCall.tiles_dir)
             IN sel # "none" =>
                   LET name == TILE_MAP[FirstOffending(fs, sel)]
                   IN /\ tileCall.error.files = <<name>>
                      /\ tileCall.error.type =
                            IF fs[sel].files[name] = "absent"
                            THEN "FileNotFoundError" ELSE "IOError"

\* A call that had loaded entries 0 and 1 before it failed on a corrupt entry 2.
C5_Witness ==
    /\ tileCall # None
    /\ tileCall.raised
    /\ tileCall.error.type = "IOError"
    /\ tileCall.error.files = <<TILE_MAP[2]>>
    /\ _tile_cache = None

C6_RequestStep ==
    (phase = "serving" /\ (reqs' # reqs \/ done' # done)) =>
        (_global_preset' = _global_preset /\ _tile_cache' = _tile_cache)

C6_SameCaches ==
    (phase = "serving" /\ Mosaic) =>
        \A k \in 1..Len(done.calls) :
            /\ done.calls[k].stage = "apply_preset_once" =>
                  done.calls[k].preset = _global_preset
            /\ done.calls[k].stage = "render_3d_mosaic" =>
                  done.calls[k].tile_images = _tile_cache

\* C6: after a successful startup no request step, whatever its input and its
\* outcome, changes _global_preset or _tile_cache, and every request that gets
\* as far as a stage passes it the same two cached values.
C6_NoRequestMutatesCaches == [][C6_RequestStep]_vars /\ [](C6_SameCaches)

\* A request answered while another is suspended at its read.
C6_Witness ==
    /\ phase = "serving"
    /\ Mosaic
    /\ done.response.status = 200
    /\ \E r \in Slots : reqs[r].pc = "reading"

\* C7: with the preset loaded and a valid size, an upload that cannot be read
\* or decoded is answered 400 with a detail that carries the read/decode
\* failure, and none of load_tile_images, apply_preset_once, idx_image,
\* render_3d_mosaic is invoked.
C7_UndecodableIs400 ==
    (Mosaic /\ done.preset # None /\ done.size \in {64, 96}
        /\ done.payload \in {"garbage", "unreadable"}) =>
        /\ done.response.status = 400
        /\ done.response.detail.text = "Failed to read image: "
        /\ done.response.detail.cause =
              ErrorStr(StageError(IF done.payload = "garbage"
                                  THEN "Image.open" ELSE "file.read"))
        /\ \A stage \in ProcessingStages : ~Invoked(stage)

C7_Witness ==
    /\ Mosaic
    /\ done.preset # None
    /\ done.size = 96
    /\ done.payload = "garbage"
    /\ done.response.status = 400

\* C8: every invocation of apply_preset_once gets the cached preset, the
\* requested size and max_per_color = 2900 for size 96, MAX_PER_COLOR for size
\* 64, and no other value.
C8_BudgetBySize ==
    Mosaic =>
        \A k \in 1..Len(done.calls) :
            done.calls[k].stage = "apply_preset_once" =>
                /\ done.calls[k].preset = _global_preset
                /\ done.calls[k].preset # None
                /\ done.calls[k].size = done.size
                /\ done.size \in {64, 96}
                /\ done.size = 96 => done.calls[k].max_per_color = 2900
                /\ done.size = 64 => done.calls[k].max_per_color = MAX_PER_COLOR

C8_Witness ==
    /\ Mosaic
    /\ done.size = 64
    /\ MAX_PER_COLOR # 2900
    /\ Invoked("apply_preset_once")
    /\ done.response.status = 200

\* The cause a processing stage's failure carries into the detail.
StageCause(call) ==
    IF call.stage = "load_tile_images"
    THEN ErrorStr(call.error)
    ELSE ErrorStr(StageError(call.stage))

\* C9: a request ends in one response: 500 "Preset not loaded" if the preset
\* is unset; else 400 if the size is not 64 or 96; else 400 if the upload
\* cannot be read or decoded; 500 with a detail carrying the cause if
\* apply_preset_once, idx_image, the tile lookup or render_3d_mosaic raises;
\* and 200, with media type image/png, exactly when all seven steps ran and
\* none raised.
C9_OutcomeByStage ==
    Mosaic =>
        LET resp == done.response
            n == Len(done.calls)
        IN /\ resp.status \in {200, 400, 500}
           /\ done.preset = None =>
                 (resp.status = 500 /\ resp.detail.text = "Preset not loaded")
           /\ (done.preset # None /\ done.size \notin {64, 96}) => resp.status = 400
           /\ (done.preset # None /\ done.size \in {64, 96}
                  /\ done.payload \in {"garbage", "unreadable"}) =>
                 (resp.status = 400 /\ resp.detail.cause # None)
           /\ (n > 0 /\ done.calls[n].raised /\ done.calls[n].stage \in ProcessingStages) =>
                 /\ resp.status = 500
                 /\ resp.detail # None
                 /\ resp.detail.cause = StageCause(done.calls[n])
           /\ resp.status = 200 <=>
                 (n = 7 /\ \A k \in 1..n : ~done.calls[k].raised)
           /\ resp.status = 200 => resp.media_type = "image/png"

\* A request that failed in idx_image.
C9_Witness ==
    /\ Mosaic
    /\ Len(done.calls) = 4
    /\ done.calls[4].stage = "idx_image"
    /\ done.calls[4].raised
    /\ done.response.status = 500

StageOrder ==
    <<"file.read", "Image.open", "apply_preset_once", "idx_image",
      "load_tile_images", "render_3d_mosaic", "save">>

\* C10: the steps of a request are invoked in the fixed order read, decode,
\* apply_preset_once (with its budget), idx_image, tile lookup,
\* render_3d_mosaic, encode, each at most once, none before the request has
\* passed validation; every step but the last invoked has succeeded, and the
\* sequence stops short of the encode only at a step that raised.
C10_StagesInOrder ==
    Mosaic =>
        LET n == Len(done.calls)
        IN /\ n <= Len(StageOrder)
           /\ \A k \in 1..n : StageNames[k] = StageOrder[k]
           /\ \A k \in 1..(n - 1) : ~done.calls[k].raised
           /\ n > 0 => (done.preset # None /\ done.size \in {64, 96})
           /\ (done.preset # None /\ done.size \in {64, 96}) => n > 0
           /\ (n > 0 /\ n < Len(StageOrder)) => done.calls[n].raised

\* A request stopped by render_3d_mosaic raising, after five steps succeeded.
C10_Witness ==
    /\ Mosaic
    /\ Len(done.calls) = 6
    /\ done.calls[6].stage = "render_3d_mosaic"
    /\ done.calls[6].raised
    /\ done.response.status = 500

\* The default call load_tile_images() would find a directory all of whose five
\* catalog files can be opened.
AssetsPresent(disk) ==
    LET sel == SelectedDir(disk, TilesDir)
    IN sel # "none" /\ \A i \in TileIdx : ~Offending(disk, sel, i)

\* A step in which the request of slot r resumes with the preset loaded and the
\* tile cache unset, and gets as far as the tile lookup.
C11_LazyLookup(r) ==
    /\ reqs[r].pc = "reading"
    /\ reqs'[r] = Idle
    /\ _global_preset # None
    /\ _tile_cache = None
    /\ Len(done'.calls) >= 5

C11_LazyStep ==
    \A r \in Slots :
        C11_LazyLookup(r) =>
            LET call == done'.calls[5]
                n == Len(done'.calls)
            IN /\ call.stage = "load_tile_images"
               /\ call.log # <<>>
               /\ call.raised <=> ~AssetsPresent(fs)
               /\ IF call.raised
                  THEN /\ n = 5
                       /\ done'.response.status = 500
                       /\ done'.response.detail.text = "Error generating 3D mosaic: "
                       /\ done'.response.detail.cause = ErrorStr(call.error)
                       /\ _tile_cache' = None
                       /\ _global_preset' = _global_preset
                       /\ phase' = phase
                       /\ \A q \in Slots \ {r} : reqs'[q] = reqs[q]
                  ELSE /\ CacheComplete(_tile_cache')
                       /\ call.value = _tile_cache'
                       /\ n >= 6
                       /\ done'.calls[6].stage = "render_3d_mosaic"
                       /\ done'.calls[6].tile_images = _tile_cache'
                       /\ (\A k \in 1..n : ~done'.calls[k].raised) =>
                              done'.response.status = 200

\* C11: a request that finds the preset loaded and _tile_cache unset attempts
\* the population itself. If that fails, the request is answered 500 carrying
\* the loader's error, _tile_cache stays unset and nothing else changes (no
\* other request in flight, not the preset, not the lifecycle), so that the
\* next request attempts the population again; if the assets are present, the
\* population succeeds, render_3d_mosaic gets the complete mapping and the
\* request is answered 200 unless render or encode raises.
C11_LazyFailureIsLocal == [][C11_LazyStep]_vars

\* A request that failed in its lazy tile lookup while another is suspended at
\* its read.
C11_Witness ==
    /\ Mosaic
    /\ Len(done.calls) = 5
    /\ done.calls[5].stage = "load_tile_images"
    /\ done.calls[5].raised
    /\ done.response.status = 500
    /\ _global_preset # None
    /\ _tile_cache = None
    /\ \E r \in Slots : reqs[r].pc = "reading"

\* A request that populated the cache itself and was answered 200, in a
\* process whose startup hook had failed.
C11_RetryWitness ==
    /\ Mosaic
    /\ phase = "aborted"
    /\ done.response.status = 200
    /\ done.calls[5].log # <<>>
    /\ CacheComplete(_tile_cache)

\* No request has been accepted yet.
NoRequestYet == done = None /\ \A r \in Slots : reqs[r] = Idle

C12_WriteStep ==
    /\ (_global_preset' # _global_preset \/ _tile_cache' # _tile_cache) =>
          /\ phase = "boot"
          /\ phase' # "boot"
          /\ NoRequestYet
          /\ reqs' = reqs /\ done' = done
    /\ _global_preset' # _global_preset => _global_preset = None
    /\ _tile_cache' # _tile_cache => _tile_cache = None
    /\ phase # "boot" => (_global_preset' = _global_preset /\ _tile_cache' = _tile_cache)

C12_Written ==
    /\ phase = "boot" => (_global_preset = None /\ _tile_cache = None /\ NoRequestYet)
    /\ Accepting => (_global_preset # None /\ _tile_cache # None)

\* C12: each of _global_preset and _tile_cache takes a value exactly once in a
\* process that accepts requests: it is unset until the startup step, that one
\* step sets both before any request has been accepted, and no step after
\* startup has completed, a request's tile lookup included, changes either.
\* (Line 161 re-binds _tile_cache to the object line 146 has just stored.)
C12_WrittenOnceAtStartup == [](C12_Written) /\ [][C12_WriteStep]_vars

\* A request served from the cache, without any disk access, after the tile
\* files have gone from the disk.
C12_Witness ==
    /\ Accepting
    /\ Mosaic
    /\ Len(done.calls) >= 5
    /\ done.calls[5].log = <<>>
    /\ done.calls[5].value = _tile_cache
    /\ ~AssetsPresent(fs)

\* The file of the last call of load_preset_from_json parses as JSON.
Parseable(file) == file.exists /\ file.valid

FloatFields == {"blur", "unsharp_radius", "contrast", "brightness", "gamma"}

\* The documented defaults.
DocumentedDefault(field) ==
    CASE field \in {"blur", "unsharp_radius"} -> PyNum("float", 0)
      [] field = "unsharp_percent" -> PyNum("int", 0)
      [] field \in {"contrast", "brightness", "gamma"} -> PyNum("float", 10)

\* The number x equals the number v of the file (3 == 3.0 in Python; a string
\* equals no number).
SameNumber(x, v) == v.t \in {"int", "float"} /\ x.tenths = v.tenths

\* v can be coerced to the declared type of field.
Coercible(field, v) ==
    IF field \in FloatFields
    THEN v.t \in {"int", "float", "intstr", "floatstr"}
    ELSE v.t \in {"int", "intstr", "float"}

Abs(n) == IF n >= 0 THEN n ELSE 0 - n

\* x is v coerced to the declared type of field: the same number as a float,
\* or, for the int field, the integer obtained by dropping v's fraction.
CoercedFrom(field, x, v) ==
    IF field \in FloatFields
    THEN x.t = "float" /\ x.tenths = v.tenths
    ELSE /\ x.t = "int"
         /\ x.tenths % 10 = 0
         /\ Abs(x.tenths) <= Abs(v.tenths)
         /\ Abs(v.tenths) - Abs(x.tenths) < 10
         /\ (x.tenths >= 0) = (v.tenths >= 0 \/ Abs(v.tenths) < 10)

C13_NotFound ==
    (presetCall # None /\ ~presetCall.file.exists) =>
        /\ presetCall.raised
        /\ presetCall.error.type = "FileNotFoundError"
        /\ presetCall.value = None

\* C13 as claimed: every parseable file gives a Preset whose present fields
\* have the file's values and whose absent fields have the defaults.
C13_Original ==
    /\ C13_NotFound
    /\ (presetCall # None /\ Parseable(presetCall.file)) =>
          /\ ~presetCall.raised
          /\ \A field \in PresetFieldSet :
                IF field \in DOMAIN presetCall.file.dict
                THEN SameNumber(presetCall.value[field], presetCall.file.dict[field])
                ELSE presetCall.value[field] = DocumentedDefault(field)

\* C13, amended: a parseable file whose top level is a mapping and whose
\* present fields all hold values that float() (int() for unsharp_percent)
\* accepts gives a Preset in which each present field has the file's value
\* coerced to the declared type (unsharp_percent loses its fraction, a numeric
\* string becomes its number) and each absent field its documented default;
\* the call fails only if the file is missing, does not parse, is not a
\* mapping or holds a value that cannot be coerced, never because a field is
\* absent; a nonexistent path gives a not-found error and no Preset.
C13_PresetFromFile ==
    /\ C13_NotFound
    /\ presetCall # None =>
          LET file == presetCall.file
              present == DOMAIN file.dict
              wellTyped == \A field \in present : Coercible(field, file.dict[field])
          IN /\ presetCall.raised <=>
                   ~(Parseable(file) /\ file.isObject /\ wellTyped)
             /\ presetCall.raised => presetCall.value = None
             /\ ~presetCall.raised =>
                   /\ presetCall.value.py = "Preset"
                   /\ \A field \in PresetFieldSet :
                         IF field \in present
                         THEN CoercedFrom(field, presetCall.value[field], file.dict[field])
                         ELSE presetCall.value[field] = DocumentedDefault(field)

\* The file {"gamma": 2.0, "unsharp_percent": 150.5} gives gamma 2.0,
\* unsharp_percent 150 and the four other fields at their defaults.
C13_Witness ==
    /\ presetCall # None
    /\ ~presetCall.raised
    /\ DOMAIN presetCall.file.dict = {"gamma", "unsharp_percent"}
    /\ presetCall.file.dict["unsharp_percent"] = PyNum("float", 1505)
    /\ presetCall.value.unsharp_percent = PyNum("int", 1500)
    /\ presetCall.value.gamma = PyNum("float", 20)
    /\ presetCall.value.contrast = PyNum("float", 10)

\* The search order the docstring of load_tile_images gives (lines 88-91).
DocstringOrder == <<TilesDir, Cwd, MntData, SourceTiles>>

\* The positions of DocstringOrder whose directory holds the probe tile.
DocstringHits(disk) ==
    {k \in 1..Len(DocstringOrder) : FileExists(disk, DocstringOrder[k], TILE_MAP[0])}

\* The directories the last call opened tile files in.
OpenedDirs == {tileCall.log[k].dir : k \in {j \in 1..Len(tileCall.log) : tileCall.log[j].op = "open"}}

\* C14: load_tile_images() searches tiles/, then the current directory, then
\* /mnt/data, then the directory next to the source file: when the probe tile
\* exists in more than one of them, the tiles are loaded from the earliest of
\* these in that order, and from no other directory.
C14_DocstringOrder ==
    (tileCall # None /\ tileCall.before = None /\ tileCall.tiles_dir = TilesDir
        /\ Cardinality(DocstringHits(fs)) > 1) =>
        LET first == CHOOSE k \in DocstringHits(fs) : \A j \in DocstringHits(fs) : k <= j
        IN /\ OpenedDirs = {DocstringOrder[first]}
           /\ ~tileCall.raised =>
                 \A i \in TileIdx : tileCall.value.items[i].dir = DocstringOrder[first]

\* The exchange completed last is a GET /health.
Probed == done # None /\ done.route = "/health"

C15_Answer ==
    /\ ENABLED Health
    /\ Probed =>
          /\ done.response.status = 200
          /\ done.response.body = [status |-> "ok"]

C15_ProbeStep ==
    (done' # done /\ done'.route = "/health") =>
        /\ _global_preset' = _global_preset
        /\ _tile_cache' = _tile_cache
        /\ allocs' = allocs
        /\ reqs' = reqs
        /\ phase' = phase

\* C15: GET /health can be answered in every state of the process, its answer
\* is always 200 {"status": "ok"} whether or not the preset and the tile cache
\* are loaded, and answering it leaves _global_preset, _tile_cache and the
\* requests in flight as they were.
C15_HealthAlwaysOk == [](C15_Answer) /\ [][C15_ProbeStep]_vars

\* A probe answered before the startup hook has run, with nothing loaded.
C15_Witness ==
    /\ Probed
    /\ done.response.body = [status |-> "ok"]
    /\ phase = "boot"
    /\ _global_preset = None
    /\ _tile_cache = None

\* The candidates of a call with argument d, in the order of the claim.
CandidateOrder(d) == <<d, TilesDir, MntData, Cwd, SourceTiles>>

\* The positions of CandidateOrder(d) whose directory holds the file of entry 0.
ProbeHits(disk, d) ==
    {k \in 1..Len(CandidateOrder(d)) : FileExists(disk, CandidateOrder(d)[k], TILE_MAP[0])}

\* The directories of the accesses the last call made to the files of the
\* entries after entry 0.
TouchedForLaterEntries ==
    {tileCall.log[k].dir :
        k \in {j \in 1..Len(tileCall.log) :
                  tileCall.log[j].file \in TileNames \ {TILE_MAP[0]}}}

\* C16: a call with an empty cache, some candidate holding the file of entry
\* 0, selects the first such candidate in the order caller-supplied directory,
\* tiles, /mnt/data, current directory, tiles next to the source file; every
\* tile it opens, and every access it makes for entries 1..4, is in that
\* directory; it succeeds exactly when all five files can be opened there, the
\* mapping then holding entry i's file from that directory for each i, and
\* otherwise it fails on the first entry absent or unreadable there, whatever
\* the other candidates hold.
C16_SingleDirectory ==
    (tileCall # None /\ tileCall.before = None /\ ProbeHits(fs, tileCall.tiles_dir) # {}) =>
        LET hits == ProbeHits(fs, tileCall.tiles_dir)
            sel == CandidateOrder(tileCall.tiles_dir)[CHOOSE k \in hits : \A j \in hits : k <= j]
            complete == \A i \in TileIdx : ~Offending(fs, sel, i)
        IN /\ OpenedDirs = {sel}
           /\ TouchedForLaterEntries \subseteq {sel}
           /\ tileCall.raised <=> ~complete
           /\ ~tileCall.raised =>
                 /\ DOMAIN tileCall.value.items = TileIdx
                 /\ \A i \in TileIdx :
                       /\ tileCall.value.items[i].dir = sel
                       /\ tileCall.value.items[i].file = TILE_MAP[i]
                 /\ _tile_cache = tileCall.value
           /\ tileCall.raised =>
                 /\ tileCall.error.files = <<TILE_MAP[FirstOffending(fs, sel)]>>
                 /\ _tile_cache = None

\* A call that failed on an entry absent from the selected directory although
\* another of its candidates holds that entry's file.
C16_Witness ==
    /\ tileCall # None
    /\ tileCall.before = None
    /\ ProbeHits(fs, tileCall.tiles_dir) # {}
    /\ tileCall.raised
    /\ tileCall.error.type = "FileNotFoundError"
    /\ \E d \in CandidateDirs(tileCall.tiles_dir) :
          FileExists(fs, d, tileCall.error.files[1])

\* The last call was made with an empty cache, none of its ordered candidates
\* holds the file of entry 0, and the current directory holds some other
\* catalog file: the fallback selects the current directory.
C17_FallbackTaken ==
    /\ tileCall # None
    /\ tileCall.before = None
    /\ \A d \in CandidateDirs(tileCall.tiles_dir) : ~FileExists(fs, d, TILE_MAP[0])
    /\ \E name \in TileNames : FileExists(fs, Cwd, name)

\* C17: whenever the fallback selects the current directory, the call opens no
\* file and fails with the not-found error for entry 0 in the current
\* directory, and _tile_cache stays unset; so every call that populates the
\* cache found entry 0 in one of its five ordered candidates and loaded the
\* tiles from such a candidate.
C17_FallbackNeverPopulates ==
    /\ C17_FallbackTaken =>
          /\ tileCall.raised
          /\ tileCall.error.type = "FileNotFoundError"
          /\ tileCall.error.text = "Tile image not found"
          /\ tileCall.error.files = <<TILE_MAP[0]>>
          /\ tileCall.error.where = Cwd
          /\ OpenedDirs = {}
          /\ _tile_cache = None
    /\ (tileCall # None /\ tileCall.before = None /\ ~tileCall.raised) =>
          /\ ProbeHits(fs, tileCall.tiles_dir) # {}
          /\ \A i \in TileIdx :
                /\ tileCall.value.items[i].dir \in CandidateDirs(tileCall.tiles_dir)
                /\ FileExists(fs, tileCall.value.items[i].dir, TILE_MAP[0])

\* The fallback taken in a current directory that holds the four files of
\* entries 1..4.
C17_Witness ==
    /\ C17_FallbackTaken
    /\ \A i \in TileIdx \ {0} : FileExists(fs, Cwd, TILE_MAP[i])
    /\ tileCall.raised
    /\ tileCall.error.where = Cwd
    /\ _tile_cache = None

\* A step in which the handler of slot r resumes from its read and runs to its
\* response.
Resumes(r) == reqs[r].pc = "reading" /\ reqs'[r] = Idle

C18_PopulationStep ==
    /\ _tile_cache # None => _tile_cache' = _tile_cache
    /\ \A r \in Slots :
          (Resumes(r) /\ Len(done'.calls) >= 5) =>
              LET call == done'.calls[5]
              IN /\ call.stage = "load_tile_images"
                 /\ _tile_cache # None =>
                       (call.log = <<>> /\ ~call.raised /\ call.value = _tile_cache)
                 /\ (call.log # <<>> /\ ~call.raised) =>
                       (_tile_cache = None /\ _tile_cache' = call.value)
                 /\ Len(done'.calls) >= 6 =>
                       /\ done'.calls[6].stage = "render_3d_mosaic"
                       /\ done'.calls[6].tile_images = _tile_cache'

C18_RenderGetsTheCache ==
    /\ _tile_cache # None => CacheComplete(_tile_cache)
    /\ (Mosaic /\ Len(done.calls) >= 6) =>
          /\ Cardinality(DOMAIN done.calls[6].tile_images.items) = 5
          /\ done.calls[6].tile_images = _tile_cache

\* C18: in every interleaving of the startup hook and request handlers that
\* suspend only at their read, once _tile_cache is set no step sets it again,
\* so the tile files are read by at most one successful population (by the
\* hook or by one handler); a handler that finds the cache set makes no disk
\* access; and every handler that reaches render_3d_mosaic passes it the one
\* five-entry mapping that is the cache.
C18_SinglePopulation == [](C18_RenderGetsTheCache) /\ [][C18_PopulationStep]_vars

\* In a process whose hook failed to load the tiles, a handler rendered from
\* the mapping an earlier handler had populated, a third being suspended at
\* its read.
C18_Witness ==
    /\ phase = "aborted"
    /\ Mosaic
    /\ done.response.status = 200
    /\ done.calls[5].log = <<>>
    /\ done.calls[6].tile_images = _tile_cache
    /\ \E r \in Slots : reqs[r].pc = "reading"

\* Directory d holds all five catalog files, each openable.
CompleteIn(disk, d) == \A i \in TileIdx : ~Offending(disk, d, i)

C19_AnyDirectory ==
    _tile_cache # None =>
        \A d \in Dirs :
            LET t == load_tile_images(d, _tile_cache, fs, allocs)
            IN /\ ~t.raised
               /\ t.value = _tile_cache
               /\ t.cache = _tile_cache
               /\ t.log = <<>>

C19_CallStep ==
    /\ _tile_cache # None => _tile_cache' = _tile_cache
    /\ (tileCall' # tileCall /\ ~tileCall'.raised) =>
          /\ tileCall'.value = _tile_cache'
          /\ tileCall'.before # None =>
                \A i \in TileIdx :
                    /\ tileCall'.value.items[i] = _tile_cache.items[i]
                    /\ (tileCall'.tiles_dir # _tile_cache.items[i].dir)
                          => tileCall'.value.items[i].dir # tileCall'.tiles_dir

\* C19: once a call has populated the cache, the global keeps that mapping for
\* good, and for every directory d the call load_tile_images(d) returns that
\* very mapping, none of whose tiles comes from d unless the first call took
\* them from there, without raising and without a disk access, whatever d and
\* the other directories hold by then.
C19_ArgumentIgnoredOnceCached == [](C19_AnyDirectory) /\ [][C19_CallStep]_vars

\* A cached call naming a directory that holds a complete tile set, answered
\* with the mapping loaded from another directory.
C19_Witness ==
    /\ tileCall # None
    /\ tileCall.before # None
    /\ tileCall.tiles_dir = CustomDir
    /\ CompleteIn(fs, CustomDir)
    /\ tileCall.value = _tile_cache
    /\ \A i \in TileIdx : tileCall.value.items[i].dir # CustomDir

====
